---------------------------- MODULE Spec2Model ----------------------------
(***************************************************************************)
(* s3-simple-expire (src/main.rs): one run of `main`.                      *)
(*                                                                         *)
(* The run is sequential.  Its positions (pc) are the points between the   *)
(* statements of main that can end the run, and the two await points at    *)
(* which it waits for S3: the list response and a delete response.         *)
(*                                                                         *)
(* Time is counted in whole days.  chrono's representable instants are     *)
(* ChronoTimes; the SDK's DateTime covers more (AwsTimes), so that both    *)
(* checked_sub_days and to_chrono_utc can fail, as in the source.          *)
(*                                                                         *)
(* A request is one call of the SDK (list_objects_v2().send(),             *)
(* delete_object().send()) and its response is what the await yields: Ok   *)
(* or Err.  What the SDK does below that call is not part of main.  The    *)
(* region only selects where the requests go and is left out.  The command *)
(* lines are those built from the options of Opt.                          *)
(*                                                                         *)
(* `events` is the observable trace of the run, in the order things        *)
(* happen: lines printed on stdout, requests sent to S3 and the responses  *)
(* received.  The field obj of an event is the position in the listing of  *)
(* the object it concerns (a history field: the printed text and the       *)
(* request carry the key only).                                            *)
(***************************************************************************)
EXTENDS Integers, Sequences, FiniteSets

VARIABLES
  args,         \* the command line: --bucket, --days, --dry-run, --endpoint
  env,          \* the environment: AWS_ENDPOINT
  now,          \* what Utc::now() returned
  opt,          \* Opt, once parsed
  days_expiry,  \* the cutoff instant, once computed
  resp,         \* the list response, once received
  idx,          \* position of the for loop in the listing (1-based)
  pc,           \* position of main
  events,       \* observable trace: prints, requests, responses
  exit,         \* exit status and diagnostic, once the process has ended
  prev          \* the outcome of an earlier invocation (two-run comparison)

vars == <<args, env, now, opt, days_expiry, resp, idx, pc, events, exit, prev>>

---------------------------------------------------------------------------
(* Bounds of the model *)

MaxTime == 3

MaxDays == 3

MaxObjects == 2

---------------------------------------------------------------------------
(* Option<T> *)

None == <<>>

Some(x) == <<x>>

IsSome(o) == o # None

Unwrap(o) == o[1]

---------------------------------------------------------------------------
(* Values *)

ChronoTimes == 0..MaxTime

AwsTimes == (0 - 1)..(MaxTime + 1)

Clocks == {MaxTime - 1}

\* the keys of the bucket, in the order S3 lists them
KeyOrder == <<"A", "B">>

Keys == {KeyOrder[i] : i \in DOMAIN KeyOrder}

Buckets == {"bkt"}

Endpoints == {"http://s3"}

OptionOf(S) == {None} \cup {Some(x) : x \in S}

ObjectRecords == [key : OptionOf(Keys), last_modified : OptionOf(AwsTimes)]

SeqsUpTo(S, n) == UNION {[1..m -> S] : m \in 0..n}

\* the place of a key in the order of the listing; an entry without a key
\* stands for the empty key, which comes first
KeyRank(k) ==
  IF k = None THEN 0 ELSE CHOOSE i \in DOMAIN KeyOrder : KeyOrder[i] = Unwrap(k)

\* ListObjectsV2 returns each key once, in ascending order of the keys
Ascending(l) ==
  \A i, j \in DOMAIN l : i < j => KeyRank(l[i].key) < KeyRank(l[j].key)

\* the responses to list_objects_v2: at most one page of MaxObjects entries
ListResponses ==
  [contents : OptionOf({l \in SeqsUpTo(ObjectRecords, MaxObjects) : Ascending(l)})]

ArgSets == [bucket : OptionOf(Buckets), days : OptionOf(0..MaxDays),
            dry_run : BOOLEAN, endpoint : OptionOf(Endpoints)]

EnvSets == [AWS_ENDPOINT : OptionOf(Endpoints)]

---------------------------------------------------------------------------
(* Pure parts of main *)

\* clap: --bucket and --days are required; --endpoint falls back to the
\* environment variable AWS_ENDPOINT; --dry-run is a switch.
OptParse(a, e) ==
  IF a.bucket = None \/ a.days = None
    THEN None
    ELSE Some([bucket   |-> Unwrap(a.bucket),
               days     |-> Unwrap(a.days),
               dry_run  |-> a.dry_run,
               endpoint |-> IF IsSome(a.endpoint) THEN a.endpoint
                                                  ELSE e.AWS_ENDPOINT])

\* now.checked_sub_days(Days::new(days)): None when not representable.
checked_sub_days(t, d) ==
  IF t - d \in ChronoTimes THEN Some(t - d) ELSE None

\* DateTimeExt::to_chrono_utc: an error when chrono cannot hold the instant.
to_chrono_utc(t) ==
  IF t \in ChronoTimes THEN Some(t) ELSE None

\* resp.contents().unwrap_or_default()
Contents(r) ==
  IF IsSome(r.contents) THEN Unwrap(r.contents) ELSE <<>>

\* object.key().unwrap_or_default()
KeyOf(object) ==
  IF IsSome(object.key) THEN Unwrap(object.key) ELSE ""

\* a comparison that also takes the object exactly at the cutoff
Expired_Inclusive(object_timestamp, cutoff) == object_timestamp <= cutoff

\* object_timestamp < days_expiry
Expired(object_timestamp, cutoff) == object_timestamp < cutoff

\* The two lines of output.
OlderLine(key, days) == [fmt |-> "is older than days, deleting...",
                         key |-> key, days |-> days]

DeletedLine(key) == [fmt |-> "deleted", key |-> key]

Println(j, line) == [kind |-> "print", obj |-> j, line |-> line]

ListReq(bucket) == [kind |-> "list_req", bucket |-> bucket]

ListResp(ok) == [kind |-> "list_resp", ok |-> ok]

DeleteReq(j, bucket, key) ==
  [kind |-> "delete_req", obj |-> j, bucket |-> bucket, key |-> key]

DeleteResp(j, ok) == [kind |-> "delete_resp", obj |-> j, ok |-> ok]

\* The process ends: a panic (101), an Err returned by main (1), a usage
\* error of clap (2), or Ok(()) (0).
Exited(code, diag) == Some([code |-> code, diag |-> diag])

---------------------------------------------------------------------------
(* The run *)

Init ==
  /\ args \in ArgSets
  /\ env \in EnvSets
  /\ now \in Clocks
  /\ opt = None
  /\ days_expiry = None
  /\ resp = None
  /\ idx = 1
  /\ pc = "parse"
  /\ events = <<>>
  /\ exit = None
  /\ prev = None

\* Opt::parse()
Parse ==
  /\ pc = "parse"
  /\ opt' = OptParse(args, env)
  /\ IF opt' = None
       THEN /\ pc' = "exit"
            /\ exit' = Exited(2, "usage")
       ELSE /\ pc' = "expiry"
            /\ exit' = exit
  /\ UNCHANGED <<args, env, now, days_expiry, resp, idx, events, prev>>

\* let days_expiry = now.checked_sub_days(..).expect(..)
Expiry ==
  /\ pc = "expiry"
  /\ LET r == checked_sub_days(now, Unwrap(opt).days) IN
       IF r = None
         THEN /\ pc' = "exit"
              /\ exit' = Exited(101, "Invalid number of days to subtract")
              /\ days_expiry' = days_expiry
         ELSE /\ pc' = "config"
              /\ exit' = exit
              /\ days_expiry' = r
  /\ UNCHANGED <<args, env, now, opt, resp, idx, events, prev>>

\* the endpoint is not checked: the client is built with the SDK's default
Config_NoEndpointCheck ==
  /\ pc = "config"
  /\ pc' = "list"
  /\ UNCHANGED <<args, env, now, opt, days_expiry, resp, idx, events, exit, prev>>

\* aws_config::from_env().endpoint_url(endpoint.expect(..)) ... Client::new
Config ==
  /\ pc = "config"
  /\ IF Unwrap(opt).endpoint = None
       THEN /\ pc' = "exit"
            /\ exit' = Exited(101, "No endpoint specified")
       ELSE /\ pc' = "list"
            /\ exit' = exit
  /\ UNCHANGED <<args, env, now, opt, days_expiry, resp, idx, events, prev>>

\* client.list_objects_v2().bucket(&bucket).send(): the request goes out
ListSend ==
  /\ pc = "list"
  /\ events' = Append(events, ListReq(Unwrap(opt).bucket))
  /\ pc' = "list_wait"
  /\ UNCHANGED <<args, env, now, opt, days_expiry, resp, idx, exit, prev>>

\* .await? with Ok(r)
ListOk(r) ==
  /\ pc = "list_wait"
  /\ resp' = Some(r)
  /\ events' = Append(events, ListResp(TRUE))
  /\ idx' = 1
  /\ pc' = "loop"
  /\ UNCHANGED <<args, env, now, opt, days_expiry, exit, prev>>

\* the list error is dropped and main returns Ok(())
ListFail_ExitZero ==
  /\ pc = "list_wait"
  /\ events' = Append(events, ListResp(FALSE))
  /\ pc' = "exit"
  /\ exit' = Exited(0, "")
  /\ UNCHANGED <<args, env, now, opt, days_expiry, resp, idx, prev>>

\* .await? with Err(e): main returns the error
ListFail ==
  /\ pc = "list_wait"
  /\ events' = Append(events, ListResp(FALSE))
  /\ pc' = "exit"
  /\ exit' = Exited(1, "list_objects_v2 failed")
  /\ UNCHANGED <<args, env, now, opt, days_expiry, resp, idx, prev>>

\* The list response this run receives.  A second invocation that is compared
\* with an earlier one (prev) is given the listing the earlier one was given.
ListRecv ==
  /\ prev = None
  /\ \E r \in ListResponses : ListOk(r)

ListRecvAgain ==
  /\ IsSome(prev)
  /\ IsSome(Unwrap(prev).resp)
  /\ ListOk(Unwrap(Unwrap(prev).resp))

\* The object the for loop is at, and its key.
Listing == Contents(Unwrap(resp))

Object == Listing[idx]

\* for object in resp.contents().unwrap_or_default(): the loop is at an object
AtObject ==
  /\ pc = "loop"
  /\ idx <= Len(Listing)

\* the entry without last_modified is skipped instead
MissingLastModified_Skip ==
  /\ AtObject
  /\ Object.last_modified = None
  /\ idx' = idx + 1
  /\ UNCHANGED <<args, env, now, opt, days_expiry, resp, pc, events, exit, prev>>

\* object.last_modified.expect(..) on None: panic
MissingLastModified ==
  /\ AtObject
  /\ Object.last_modified = None
  /\ pc' = "exit"
  /\ exit' = Exited(101, "Object does not have a last modified metadata entry")
  /\ UNCHANGED <<args, env, now, opt, days_expiry, resp, idx, events, prev>>

\* .to_chrono_utc().expect(..) on an error: panic
BadLastModified ==
  /\ AtObject
  /\ IsSome(Object.last_modified)
  /\ to_chrono_utc(Unwrap(Object.last_modified)) = None
  /\ pc' = "exit"
  /\ exit' = Exited(101, "Error converting last modified datetime")
  /\ UNCHANGED <<args, env, now, opt, days_expiry, resp, idx, events, prev>>

\* The object has a timestamp chrono can hold.
HasTimestamp ==
  /\ AtObject
  /\ IsSome(Object.last_modified)
  /\ IsSome(to_chrono_utc(Unwrap(Object.last_modified)))

ObjectTimestamp == Unwrap(to_chrono_utc(Unwrap(Object.last_modified)))

\* if object_timestamp < days_expiry is false: next object, nothing printed
Retain ==
  /\ HasTimestamp
  /\ ~Expired(ObjectTimestamp, Unwrap(days_expiry))
  /\ idx' = idx + 1
  /\ UNCHANGED <<args, env, now, opt, days_expiry, resp, pc, events, exit, prev>>

\* the dry_run test is missing: the request goes out in a dry run too
DryRunReport_Deletes ==
  /\ HasTimestamp
  /\ Expired(ObjectTimestamp, Unwrap(days_expiry))
  /\ Unwrap(opt).dry_run
  /\ events' = events \o <<Println(idx, OlderLine(KeyOf(Object), Unwrap(opt).days)),
                           DeleteReq(idx, Unwrap(opt).bucket, KeyOf(Object))>>
  /\ pc' = "delete_wait"
  /\ UNCHANGED <<args, env, now, opt, days_expiry, resp, idx, exit, prev>>

\* the second line is printed only after a real delete
DryRunReport_NoDeletedLine ==
  /\ HasTimestamp
  /\ Expired(ObjectTimestamp, Unwrap(days_expiry))
  /\ Unwrap(opt).dry_run
  /\ events' = Append(events, Println(idx, OlderLine(KeyOf(Object), Unwrap(opt).days)))
  /\ idx' = idx + 1
  /\ UNCHANGED <<args, env, now, opt, days_expiry, resp, pc, exit, prev>>

\* dry_run: both lines are printed and no request is made
DryRunReport ==
  /\ HasTimestamp
  /\ Expired(ObjectTimestamp, Unwrap(days_expiry))
  /\ Unwrap(opt).dry_run
  /\ events' = events \o <<Println(idx, OlderLine(KeyOf(Object), Unwrap(opt).days)),
                           Println(idx, DeletedLine(KeyOf(Object)))>>
  /\ idx' = idx + 1
  /\ UNCHANGED <<args, env, now, opt, days_expiry, resp, pc, exit, prev>>

\* the request is sent and not awaited: the loop goes on at once
DeleteSend_NoAwait ==
  /\ HasTimestamp
  /\ Expired(ObjectTimestamp, Unwrap(days_expiry))
  /\ ~Unwrap(opt).dry_run
  /\ events' = events \o <<Println(idx, OlderLine(KeyOf(Object), Unwrap(opt).days)),
                           DeleteReq(idx, Unwrap(opt).bucket, KeyOf(Object)),
                           Println(idx, DeletedLine(KeyOf(Object)))>>
  /\ idx' = idx + 1
  /\ UNCHANGED <<args, env, now, opt, days_expiry, resp, pc, exit, prev>>

\* !dry_run: the first line is printed and the delete request goes out
DeleteSend ==
  /\ HasTimestamp
  /\ Expired(ObjectTimestamp, Unwrap(days_expiry))
  /\ ~Unwrap(opt).dry_run
  /\ events' = events \o <<Println(idx, OlderLine(KeyOf(Object), Unwrap(opt).days)),
                           DeleteReq(idx, Unwrap(opt).bucket, KeyOf(Object))>>
  /\ pc' = "delete_wait"
  /\ UNCHANGED <<args, env, now, opt, days_expiry, resp, idx, exit, prev>>

\* the second line is not printed after the delete
DeleteOk_NoLine ==
  /\ pc = "delete_wait"
  /\ events' = Append(events, DeleteResp(idx, TRUE))
  /\ idx' = idx + 1
  /\ pc' = "loop"
  /\ UNCHANGED <<args, env, now, opt, days_expiry, resp, exit, prev>>

\* .await? with Ok(_): the second line is printed, next object
DeleteOk ==
  /\ pc = "delete_wait"
  /\ events' = events \o <<DeleteResp(idx, TRUE),
                           Println(idx, DeletedLine(KeyOf(Object)))>>
  /\ idx' = idx + 1
  /\ pc' = "loop"
  /\ UNCHANGED <<args, env, now, opt, days_expiry, resp, exit, prev>>

\* the delete error is dropped: the loop goes on with the next object
DeleteFail_Continue ==
  /\ pc = "delete_wait"
  /\ events' = Append(events, DeleteResp(idx, FALSE))
  /\ idx' = idx + 1
  /\ pc' = "loop"
  /\ UNCHANGED <<args, env, now, opt, days_expiry, resp, exit, prev>>

\* the second line is printed before the result of the delete is looked at
DeleteFail_PrintsDeleted ==
  /\ pc = "delete_wait"
  /\ events' = events \o <<DeleteResp(idx, FALSE),
                           Println(idx, DeletedLine(KeyOf(Object)))>>
  /\ pc' = "exit"
  /\ exit' = Exited(1, "delete_object failed")
  /\ UNCHANGED <<args, env, now, opt, days_expiry, resp, idx, prev>>

\* .await? with Err(e): main returns the error
DeleteFail ==
  /\ pc = "delete_wait"
  /\ events' = Append(events, DeleteResp(idx, FALSE))
  /\ pc' = "exit"
  /\ exit' = Exited(1, "delete_object failed")
  /\ UNCHANGED <<args, env, now, opt, days_expiry, resp, idx, prev>>

\* the loop is over: Ok(())
Finish ==
  /\ pc = "loop"
  /\ idx > Len(Listing)
  /\ pc' = "exit"
  /\ exit' = Exited(0, "")
  /\ UNCHANGED <<args, env, now, opt, days_expiry, resp, idx, events, prev>>

Next ==
  \/ Parse
  \/ Expiry
  \/ Config
  \/ ListSend
  \/ ListRecv
  \/ ListFail
  \/ MissingLastModified
  \/ BadLastModified
  \/ Retain
  \/ DryRunReport
  \/ DeleteSend
  \/ DeleteOk
  \/ DeleteFail
  \/ Finish

Spec == Init /\ [][Next]_vars

\* Every request to S3 is eventually answered or fails, and main is scheduled.
LiveSpec == Spec /\ WF_vars(Next)

\* The program is invoked a second time with --dry-run switched and everything
\* else the same (command line, environment, now, and the listing S3 returns).
Reinvoke ==
  /\ pc = "exit"
  /\ prev = None
  /\ prev' = Some([dry_run |-> args.dry_run, resp |-> resp,
                   events |-> events, exit |-> Unwrap(exit)])
  /\ args' = [args EXCEPT !.dry_run = ~@]
  /\ opt' = None
  /\ days_expiry' = None
  /\ resp' = None
  /\ idx' = 1
  /\ pc' = "parse"
  /\ events' = <<>>
  /\ exit' = None
  /\ UNCHANGED <<env, now>>

NextPair == Next \/ ListRecvAgain \/ Reinvoke

SpecPair == Init /\ [][NextPair]_vars

---------------------------------------------------------------------------
(* Vocabulary of the properties.  These are stated over the inputs of the  *)
(* run (command line, now, listing) and its trace, not over the            *)
(* operators the actions use.                                              *)

\* The run has received the listing.
Listed == IsSome(resp)

\* now - retentionDays days
Cutoff == now - Unwrap(args.days)

Objects == 1..Len(Listing)

\* lastModified is present and is an instant the program can compare
Usable(j) ==
  /\ IsSome(Listing[j].last_modified)
  /\ Unwrap(Listing[j].last_modified) \in ChronoTimes

\* lastModified < cutoff
IsOlder(j) == Usable(j) /\ Unwrap(Listing[j].last_modified) < Cutoff

\* lastModified >= cutoff
IsRetained(j) == Usable(j) /\ Unwrap(Listing[j].last_modified) >= Cutoff

\* the key as printed and as sent: the empty string when the entry has none
RawKey(j) == IF Listing[j].key = None THEN "" ELSE Listing[j].key[1]

IsOlderLine(e) == e.kind = "print" /\ e.line.fmt = "is older than days, deleting..."

IsDeletedLine(e) == e.kind = "print" /\ e.line.fmt = "deleted"

IsDeleteReq(e) == e.kind = "delete_req"

IsDeleteOk(e) == e.kind = "delete_resp" /\ e.ok

IsDeleteErr(e) == e.kind = "delete_resp" /\ ~e.ok

ConcernsObject(e) == e.kind \in {"print", "delete_req", "delete_resp"}

\* positions in a trace es of the events that satisfy T
Where(es, T(_)) == {p \in DOMAIN es : T(es[p])}

\* the same, for the object at position j of the listing
WhereOf(es, j, T(_)) == {p \in DOMAIN es : T(es[p]) /\ es[p].obj = j}

\* what the run wrote on stdout
Stdout(es) ==
  LET printed == SelectSeq(es, LAMBDA e : e.kind = "print")
  IN  [i \in DOMAIN printed |-> printed[i].line]

\* the keys of the delete requests, in the order sent
DeleteKeys(es) ==
  LET sent == SelectSeq(es, IsDeleteReq)
  IN  [i \in DOMAIN sent |-> sent[i].key]

\* both lines for object j, "older" then "deleted", with the right text
BothLinesInOrder(j) ==
  /\ Cardinality(WhereOf(events, j, IsOlderLine)) = 1
  /\ Cardinality(WhereOf(events, j, IsDeletedLine)) = 1
  /\ \A p \in WhereOf(events, j, IsOlderLine) :
       \A q \in WhereOf(events, j, IsDeletedLine) :
         /\ p < q
         /\ events[p].line = [fmt |-> "is older than days, deleting...",
                              key |-> RawKey(j), days |-> Unwrap(args.days)]
         /\ events[q].line = [fmt |-> "deleted", key |-> RawKey(j)]

\* exactly one delete request for object j, for its key, between its two lines
OneDeleteBetweenLines(j) ==
  /\ Cardinality(WhereOf(events, j, IsDeleteReq)) = 1
  /\ \A r \in WhereOf(events, j, IsDeleteReq) :
       /\ events[r].key = RawKey(j)
       /\ \A p \in WhereOf(events, j, IsOlderLine) : p < r
       /\ \A q \in WhereOf(events, j, IsDeletedLine) : r < q

---------------------------------------------------------------------------
(* C1 *)

\* C1: every object for which a line was printed or a delete request was sent
\* has lastModified strictly earlier than the cutoff.  An object with
\* lastModified >= cutoff (one exactly at the cutoff included) has no event of
\* its own, and, when no other listed object carries its key, no line and no
\* delete request carries its key.
C1_OnlyOlderObjectsActedUpon ==
  Listed =>
    /\ \A p \in DOMAIN events :
         ConcernsObject(events[p]) =>
           /\ events[p].obj \in Objects
           /\ IsOlder(events[p].obj)
    /\ \A j \in Objects :
         IsRetained(j) /\ (\A k \in Objects \ {j} : RawKey(k) # RawKey(j)) =>
           \A p \in DOMAIN events :
             /\ IsDeleteReq(events[p]) => events[p].key # RawKey(j)
             /\ events[p].kind = "print" => events[p].line.key # RawKey(j)

\* A finished scan that deleted an older object and passed one exactly at the
\* cutoff.
C1_Witness ==
  /\ pc = "exit"
  /\ Listed
  /\ Unwrap(exit).code = 0
  /\ \E j \in Objects : Usable(j) /\ Unwrap(Listing[j].last_modified) = Cutoff
  /\ \E p \in DOMAIN events : IsDeleteOk(events[p])

---------------------------------------------------------------------------
(* C2 *)

\* The objects the scan has passed: examined, and left behind by the loop.
Passed == 1..(idx - 1)

\* C2 as stated: in a run without --dry-run that has ended, every listed object
\* with lastModified < cutoff has exactly one delete request, for its key, and
\* its two lines, in the order line, request, line.
C2_AsStated ==
  (pc = "exit" /\ Listed /\ ~args.dry_run) =>
    \A j \in Objects :
      IsOlder(j) => BothLinesInOrder(j) /\ OneDeleteBetweenLines(j)

\* C2, amended: without --dry-run, every listed object with lastModified <
\* cutoff that the scan has passed (the run did not abort at an earlier object,
\* and the object's own delete request succeeded) has exactly one delete
\* request, for its key, and its two lines, in the order line, request, line.
\* A run that exits with status 0 has passed every listed object.
C2_PassedOlderObjectsDeletedOnce ==
  (Listed /\ ~args.dry_run) =>
    /\ Passed \subseteq Objects
    /\ \A j \in Passed :
         IsOlder(j) => BothLinesInOrder(j) /\ OneDeleteBetweenLines(j)
    /\ (pc = "exit" /\ Unwrap(exit).code = 0) => Passed = Objects

\* A run without --dry-run that ended with status 0 after deleting two objects.
C2_Witness ==
  /\ pc = "exit"
  /\ Listed
  /\ ~args.dry_run
  /\ Unwrap(exit).code = 0
  /\ Cardinality({j \in Objects : IsOlder(j)}) >= 2
  /\ Cardinality(Where(events, IsDeleteReq)) >= 2

---------------------------------------------------------------------------
(* C3 *)

\* no object before j in the listing lacks a usable lastModified
ReachableInDryRun(j) == \A k \in 1..(j - 1) : Usable(k)

\* C3 as stated: with --dry-run no delete request is ever sent, and once the
\* run has ended every listed object with lastModified < cutoff has its two
\* lines, in order.
C3_AsStated ==
  args.dry_run =>
    /\ Where(events, IsDeleteReq) = {}
    /\ (pc = "exit" /\ Listed) =>
         \A j \in Objects : IsOlder(j) => BothLinesInOrder(j)

\* C3, amended: with --dry-run no delete request is ever sent; every listed
\* object with lastModified < cutoff that the scan has passed has its two
\* lines, in order and next to each other; and once the run has ended, the scan
\* has passed every such object that is not preceded in the listing by an
\* object whose lastModified is missing or cannot be converted.
C3_DryRunPrintsAndNeverDeletes ==
  args.dry_run =>
    /\ Where(events, IsDeleteReq) = {}
    /\ Where(events, LAMBDA e : e.kind = "delete_resp") = {}
    /\ Listed =>
         /\ \A j \in Passed :
              IsOlder(j) =>
                /\ BothLinesInOrder(j)
                /\ \A p \in WhereOf(events, j, IsOlderLine) :
                     IsDeletedLine(events[p + 1]) /\ events[p + 1].obj = j
         /\ pc = "exit" =>
              \A j \in Objects :
                IsOlder(j) /\ ReachableInDryRun(j) => j \in Passed

\* A dry run that ended after reporting two older objects.
C3_Witness ==
  /\ pc = "exit"
  /\ Listed
  /\ args.dry_run
  /\ Cardinality({j \in Objects : IsOlder(j)}) >= 2
  /\ Cardinality(Where(events, IsDeletedLine)) >= 2

---------------------------------------------------------------------------
(* C4 *)

\* neither --endpoint nor AWS_ENDPOINT
NoEndpoint == args.endpoint = None /\ env.AWS_ENDPOINT = None

\* now - days is not an instant chrono can hold
NoCutoff == IsSome(args.days) /\ now - Unwrap(args.days) \notin ChronoTimes

\* --bucket or --days is missing
NoRequired == args.bucket = None \/ args.days = None

IsRequest(e) == e.kind \in {"list_req", "delete_req"}

\* C4: when no endpoint is supplied, or now - days is not representable (or a
\* required argument is missing), the run never sends a list or a delete
\* request, never gets as far as the listing, and its exit status, once it has
\* ended, is not zero.
C4_ConfigErrorBeforeAnyRequest ==
  (NoEndpoint \/ NoCutoff \/ NoRequired) =>
    /\ Where(events, IsRequest) = {}
    /\ pc \in {"parse", "expiry", "config", "exit"}
    /\ ~Listed
    /\ pc = "exit" => Unwrap(exit).code # 0

\* The run has aborted for want of an endpoint, everything else being in order.
C4_Witness ==
  /\ pc = "exit"
  /\ NoEndpoint
  /\ ~NoCutoff
  /\ ~NoRequired
  /\ Unwrap(exit).code = 101
  /\ events = <<>>

---------------------------------------------------------------------------
(* C5 *)

IsPrefix(s, t) == Len(s) <= Len(t) /\ \A p \in DOMAIN s : s[p] = t[p]

\* the loop stands at an object without lastModified
AtMissing == pc = "loop" /\ Listed /\ idx \in Objects /\ Listing[idx].last_modified = None

\* C5: when a listed object lacks lastModified, the scan never goes past it:
\* nothing is printed or requested for it or for any object after it, and the
\* run cannot end with status 0.  The step taken at that object is the abort
\* (status 101), and it leaves the trace as it was; no step of the run ever
\* takes back a line or a request already in the trace.
C5_AbortAtMissingLastModified ==
  /\ [](Listed =>
          \A j \in Objects :
            Listing[j].last_modified = None =>
              /\ idx <= j
              /\ \A p \in DOMAIN events :
                   ConcernsObject(events[p]) => events[p].obj < j
              /\ pc = "exit" => Unwrap(exit).code # 0)
  /\ [][AtMissing =>
          /\ pc' = "exit"
          /\ Unwrap(exit').code = 101
          /\ events' = events
          /\ idx' = idx]_vars
  /\ [][IsPrefix(events, events')]_vars

\* The run aborted at the second object, which lacks lastModified, after it
\* had deleted the first.
C5_Witness ==
  /\ pc = "exit"
  /\ Listed
  /\ idx = 2
  /\ idx \in Objects
  /\ Listing[idx].last_modified = None
  /\ Unwrap(exit).code = 101
  /\ \E p \in DOMAIN events : IsDeleteOk(events[p]) /\ events[p].obj = 1
  /\ \E p \in DOMAIN events : IsDeletedLine(events[p]) /\ events[p].obj = 1

---------------------------------------------------------------------------
(* C6 *)

\* C6: a failed delete is the last thing that happens in the run: the run has
\* ended with a status that is not zero, the object has its one delete request
\* (no retry) and no "deleted" line, and no object after it has any event.
C6_FailedDeleteAbortsRun ==
  \A p \in DOMAIN events :
    IsDeleteErr(events[p]) =>
      LET j == events[p].obj IN
        /\ p = Len(events)
        /\ pc = "exit"
        /\ Unwrap(exit).code # 0
        /\ idx = j
        /\ Cardinality(WhereOf(events, j, IsDeleteReq)) = 1
        /\ WhereOf(events, j, IsDeletedLine) = {}
        /\ \A q \in DOMAIN events :
             ConcernsObject(events[q]) => events[q].obj <= j

\* The delete of the first object failed and an older object after it was left
\* alone.
C6_Witness ==
  /\ pc = "exit"
  /\ Listed
  /\ Len(Listing) = 2
  /\ IsOlder(1)
  /\ IsOlder(2)
  /\ IsDeleteErr(events[Len(events)])
  /\ events[Len(events)].obj = 1

---------------------------------------------------------------------------
(* C7 *)

\* the run is past its configuration: the list request has been made
PastConfig ==
  \/ pc \in {"list_wait", "loop", "delete_wait"}
  \/ pc = "exit" /\ ~(NoEndpoint \/ NoCutoff \/ NoRequired)

\* C7: a run past its configuration has sent exactly one list request, as the
\* first event of its trace, and no run sends two.  Every delete request comes
\* after the successful list response; the delete requests follow the order of
\* the listing; each is answered before anything else happens, so that at most
\* one is outstanding; and after a failed list request there is none.
C7_OneListThenSequentialDeletes ==
  /\ Cardinality(Where(events, LAMBDA e : e.kind = "list_req")) <= 1
  /\ PastConfig =>
       /\ Where(events, LAMBDA e : e.kind = "list_req") = {1}
       /\ events[1].bucket = Unwrap(args.bucket)
  /\ Cardinality(Where(events, LAMBDA e : e.kind = "list_resp")) <= 1
  /\ \A p \in Where(events, IsDeleteReq) :
       /\ p > 2
       /\ events[2] = [kind |-> "list_resp", ok |-> TRUE]
       /\ \A q \in Where(events, IsDeleteReq) :
            p < q => events[p].obj < events[q].obj
       /\ p < Len(events) =>
            events[p + 1].kind = "delete_resp" /\ events[p + 1].obj = events[p].obj
  /\ Cardinality(Where(events, IsDeleteReq))
       - Cardinality(Where(events, LAMBDA e : e.kind = "delete_resp")) \in {0, 1}
  /\ (\E p \in DOMAIN events : events[p] = [kind |-> "list_resp", ok |-> FALSE]) =>
       Where(events, IsDeleteReq) = {}

\* The second delete request of a run is outstanding, the first was answered.
C7_Witness ==
  /\ pc = "delete_wait"
  /\ Cardinality(Where(events, IsDeleteReq)) = 2
  /\ Cardinality(Where(events, IsDeleteOk)) = 1
  /\ IsDeleteReq(events[Len(events)])

---------------------------------------------------------------------------
(* C8 *)

\* something went wrong in the run
Fault ==
  \/ NoEndpoint \/ NoCutoff \/ NoRequired
  \/ \E p \in DOMAIN events :
       events[p].kind \in {"list_resp", "delete_resp"} /\ ~events[p].ok
  \/ Listed /\ idx \in Objects /\ ~Usable(idx)

\* the scan went over the whole listing
FullScan == Listed /\ idx = Len(Listing) + 1

\* C8: every run ends.  A run that has ended has status 0 exactly when the scan
\* went over the whole listing, and a status other than 0 exactly when a fault
\* happened (a configuration error, an object without a usable lastModified, a
\* failed list or delete request).  A run that has ended takes no further
\* step, and a fault ends the run where it happens: in no state is the run
\* still going with a fault behind it.
C8_TerminatesWithStatus ==
  /\ <>(pc = "exit")
  /\ [](pc = "exit" =>
          /\ IsSome(exit)
          /\ Unwrap(exit).code = 0 <=> FullScan
          /\ Unwrap(exit).code # 0 <=> Fault)
  /\ [](pc # "exit" =>
          /\ exit = None
          /\ \A p \in DOMAIN events :
               events[p].kind \in {"list_resp", "delete_resp"} => events[p].ok)
  /\ [][pc # "exit"]_vars

\* A run has ended with status 0 after deleting one object and keeping another.
C8_Witness ==
  /\ pc = "exit"
  /\ Unwrap(exit).code = 0
  /\ FullScan
  /\ \E j \in Objects : IsRetained(j)
  /\ \E p \in DOMAIN events : IsDeleteOk(events[p])

---------------------------------------------------------------------------
(* C10 *)

NumOlderLines == Cardinality(Where(events, IsOlderLine))

NumDeletedLines == Cardinality(Where(events, IsDeletedLine))

\* C10: without --dry-run, every "deleted" line in the trace comes right after
\* the successful response to the delete request for the same object and key,
\* and there are as many "deleted" lines as successful deletes.  There is at
\* most one "deleting..." line more than "deleted" lines, and there is one more
\* exactly while a delete request is outstanding or after the run has aborted
\* on a failed delete.
C10_DeletedLinesMatchDeletes ==
  ~args.dry_run =>
    /\ \A p \in Where(events, IsDeletedLine) :
         /\ p > 3
         /\ events[p - 1] = [kind |-> "delete_resp", obj |-> events[p].obj, ok |-> TRUE]
         /\ IsDeleteReq(events[p - 2])
         /\ events[p - 2].obj = events[p].obj
         /\ events[p - 2].key = events[p].line.key
    /\ NumDeletedLines = Cardinality(Where(events, IsDeleteOk))
    /\ NumOlderLines - NumDeletedLines \in {0, 1}
    /\ NumOlderLines - NumDeletedLines = 1 <=>
         \/ pc = "delete_wait"
         \/ pc = "exit" /\ events # <<>> /\ IsDeleteErr(events[Len(events)])

\* A delete is outstanding after an earlier one was done and reported.
C10_Witness ==
  /\ ~args.dry_run
  /\ pc = "delete_wait"
  /\ NumOlderLines = 2
  /\ NumDeletedLines = 1

---------------------------------------------------------------------------
(* C9: two runs on the same command line but for --dry-run, with the same  *)
(* now and the same listing (specification SpecPair).                      *)

\* Both runs have ended and both were given the listing.
BothRan ==
  /\ IsSome(prev)
  /\ pc = "exit"
  /\ Listed
  /\ Unwrap(prev).resp = resp
  /\ Unwrap(prev).dry_run # args.dry_run

DryTrace == IF args.dry_run THEN events ELSE Unwrap(prev).events

RealTrace == IF args.dry_run THEN Unwrap(prev).events ELSE events

\* C9 as stated: the dry run prints what the real run prints, line for line,
\* and sends no delete request.
C9_AsStated ==
  BothRan =>
    /\ Stdout(DryTrace) = Stdout(RealTrace)
    /\ DeleteKeys(DryTrace) = <<>>

\* the keys of the "deleting..." lines of a trace, in order
AnnouncedKeys(es) ==
  LET lines == SelectSeq(es, IsOlderLine)
  IN  [i \in DOMAIN lines |-> lines[i].line.key]

\* C9, amended: provided no delete request of the real run fails, the dry run
\* prints what the real run prints, line for line, and sends no delete
\* request, while the real run sends one delete request for each object it
\* announces, in the same order.  When a delete request of the real run fails,
\* the output of the real run is a proper beginning of that of the dry run.
C9_DryRunPrintsWhatRealRunPrints ==
  BothRan =>
    /\ DeleteKeys(DryTrace) = <<>>
    /\ DeleteKeys(RealTrace) = AnnouncedKeys(RealTrace)
    /\ IsPrefix(Stdout(RealTrace), Stdout(DryTrace))
    /\ Where(RealTrace, IsDeleteErr) = {} =>
         Stdout(DryTrace) = Stdout(RealTrace)
    /\ Where(RealTrace, IsDeleteErr) # {} =>
         Len(Stdout(RealTrace)) < Len(Stdout(DryTrace))

\* The scenario of the spec: A is older than the cutoff, B is newer; both runs
\* print the two lines for A and nothing for B; the real run deletes A only.
C9_Witness ==
  /\ BothRan
  /\ Len(Listing) = 2
  /\ RawKey(1) = "A" /\ IsOlder(1)
  /\ RawKey(2) = "B" /\ IsRetained(2) /\ Unwrap(Listing[2].last_modified) > Cutoff
  /\ Stdout(DryTrace) = Stdout(RealTrace)
  /\ Stdout(RealTrace) =
       <<[fmt |-> "is older than days, deleting...", key |-> "A",
          days |-> Unwrap(args.days)],
         [fmt |-> "deleted", key |-> "A"]>>
  /\ DeleteKeys(RealTrace) = <<"A">>
  /\ DeleteKeys(DryTrace) = <<>>

===========================================================================
